---- MODULE Spec2Model ----
(***************************************************************************)
(* Order / payment reconciliation flow of server.js: create-order,         *)
(* request-payment and verify-payment against the Zarinpal gateway, and    *)
(* the two protected order lists.                                          *)
(*                                                                         *)
(* Every handler is an async function and is suspended at each await; a    *)
(* handler runs alone between two awaits, and other handlers run while it  *)
(* is suspended.  One action is one such run:                              *)
(*   create-order    : CreateOrder (validation, the insert of save()),     *)
(*                     CreateOrderRespond (after await newOrder.save())    *)
(*   request-payment : RequestPaymentLookup (the query of findOne),        *)
(*                     RequestPaymentSend (after await findOne),           *)
(*                     RequestPaymentReturn (after await axios.post),      *)
(*                     RequestPaymentRespond (after await order.save())    *)
(*   verify-payment  : the same four steps                                 *)
(*   my-orders, orders-data : the query of find, then the answer.          *)
(* A database operation is executed in the step that issues it (the time   *)
(* between the call and its execution shows in no variable); its result    *)
(* reaches the handler in the handler's next step.                         *)
(*                                                                         *)
(* The Order model (orderModel.js) is a Mongoose model: findOne returns a  *)
(* copy of the stored document, and save() on that copy writes to the      *)
(* stored document paths the handler assigned.  Whether save() writes a    *)
(* path that was assigned the value it was loaded with is decided by       *)
(* Mongoose's change tracking, which is not part of the sources: both      *)
(* outcomes are steps of the model.                                        *)
(*                                                                         *)
(* The rate limiter (429 after 200 or 1000 requests of one client in 15    *)
(* minutes) and the body parsers run before every route; the runs here     *)
(* stay below the limit and send parsed JSON bodies.                       *)
(***************************************************************************)
EXTENDS Integers, Sequences, FiniteSets, Bags, TLC

(* ---------------------------- bounds ----------------------------------- *)
MaxOrders == 2
MaxItems == 2
\* handlers in progress at one time (suspended at any await) while the
\* store can still take an order; one at a time once it holds MaxOrders
MaxInFlight == 2

(* ------------------------ program constants ---------------------------- *)
shippingCost == 50000
ZARINPAL_GATEWAY_URL == "https://www.zarinpal.com/pg/StartPay/"
GATEWAY_OK == 100

NULL == "null"
\* paymentStatus values: 'پرداخت شده' (paid), 'ناموفق' (failed) and the
\* schema default of a new order (unpaid).
PAID == "PAID"
FAILED == "FAILED"
UNPAID == "UNPAID"

(* ------------------------- input domains ------------------------------- *)
LineItems == {[price |-> 1, quantity |-> 2], [price |-> 3, quantity |-> 1]}
RECURSIVE SeqsUpTo(_, _)
SeqsUpTo(S, n) ==
  IF n = 0 THEN {<<>>}
  ELSE LET shorter == SeqsUpTo(S, n - 1)
       IN  shorter \cup {Append(s, x) : s \in {t \in shorter : Len(t) = n - 1}, x \in S}
ProductLists == SeqsUpTo(LineItems, MaxItems)
\* 0 (no amount), and every amount from the shipping cost alone to 2 above
\* the largest final amount
Amounts == {0} \cup (shippingCost .. shippingCost + 3 * MaxItems + 2)
ShippingInfos == {NULL, "addr"}
Tokens == {"none", "bad", "tok_u1"}
Authorities == {"A1", "A2"}
\* two settlement references, so that two verifications can return different ones
RefIds == {"R8", "R9"}
\* 100 = accepted / paid; 101 = already verified (a duplicate callback)
GatewayCodes == {100, 101}
OrderIds == 1 .. (MaxOrders + 1)
\* a database operation (findOne, find, save) is executed, or it rejects
DbOutcomes == {"ok", "rejected"}

CreateBodies ==
  [shippingInfo : ShippingInfos, products : ProductLists, amount : Amounts]

\* The payment flow reads of an order only its orderId, amount and payment
\* fields: its runs create anonymous single-item orders, from a body that is
\* incomplete (no products, no amount), mismatched (the shipping cost alone)
\* or accepted (a declared amount of shippingCost + 3, the final amount of
\* one list and 1 above the other).  Every list and amount is covered by the
\* runs of create-order alone (SpecCreate), every token by SpecAuth.
FlowAmounts == {0, shippingCost, shippingCost + 3}
FlowBodies ==
  {b \in CreateBodies :
     Len(b.products) <= 1 /\ b.shippingInfo # NULL /\ b.amount \in FlowAmounts}
FlowTokens == {"none"}

\* orders   : the stored Order documents, orders[i].orderId = i
\* inflight : handlers suspended at the gateway call (await axios.post)
\* awaiting : handlers suspended at a database operation
\* response : the last response sent
VARIABLES orders, inflight, awaiting, response
vars == <<orders, inflight, awaiting, response>>

(* ----------------------------- helpers --------------------------------- *)
Abs(x) == IF x < 0 THEN -x ELSE x

\* jwt.verify(token, secret)._id : the user id, or NULL when verify throws
JwtVerifyId(token) == IF token = "tok_u1" THEN "u1" ELSE NULL

\* products.reduce((sum, item) => sum + item.price * item.quantity, 0)
RECURSIVE Reduce(_, _, _)
Reduce(products, i, sum) ==
  IF i > Len(products) THEN sum
  ELSE Reduce(products, i + 1, sum + (products[i].price * products[i].quantity))
Subtotal(products) == Reduce(products, 1, 0)
FinalAmount(products) == Subtotal(products) + shippingCost

Incomplete(body) ==
  body.shippingInfo = NULL \/ Len(body.products) = 0 \/ body.amount = 0
\* rejects a difference of exactly 1 as well
AmountMismatchAtOne(finalAmount, amount) == Abs(finalAmount - amount) >= 1
AmountMismatch(finalAmount, amount) == Abs(finalAmount - amount) > 1

UserIdOf(token) == IF token = "none" THEN NULL ELSE JwtVerifyId(token)

\* what the Order schema gives a new document: its orderId, no authority,
\* the unpaid status, no reference id
SchemaDefaults(n) ==
  [orderId |-> n,
   paymentAuthority |-> NULL,
   paymentStatus |-> UNPAID,
   paymentRefId |-> NULL]

\* stores the amount the client declared
NewOrderDeclaredAmount(body, token) ==
  [user |-> UserIdOf(token),
   products |-> body.products,
   subtotal |-> Subtotal(body.products),
   shippingCost |-> shippingCost,
   amount |-> body.amount] @@ SchemaDefaults(Len(orders) + 1)
NewOrder(body, token) ==
  [user |-> UserIdOf(token),
   products |-> body.products,
   subtotal |-> Subtotal(body.products),
   shippingCost |-> shippingCost,
   amount |-> FinalAmount(body.products)] @@ SchemaDefaults(Len(orders) + 1)

\* what findOne resolves to when no document matches (null)
NoDoc == [orderId |-> 0]

Min(S) == CHOOSE x \in S : \A y \in S : x <= y
\* Order.findOne(filter): index of the first matching document, 0 when none
FindOne(matching) == IF matching = {} THEN 0 ELSE Min(matching)
\* finds no order that has failed
FindUnfailedOrder(orderId) ==
  FindOne({i \in DOMAIN orders :
             /\ orders[i].orderId = orderId
             /\ orders[i].paymentStatus # FAILED})
\* takes the first stored order, whatever its orderId
FindFirstOrder(orderId) ==
  FindOne(DOMAIN orders)
FindByOrderId(orderId) ==
  FindOne({i \in DOMAIN orders : orders[i].orderId = orderId})
\* looks the order up by its orderId alone
FindIgnoringAuthority(orderId, authority) ==
  FindOne({i \in DOMAIN orders : orders[i].orderId = orderId})
FindByOrderIdAndAuthority(orderId, authority) ==
  FindOne({i \in DOMAIN orders :
             /\ orders[i].orderId = orderId
             /\ orders[i].paymentAuthority = authority})
\* the document findOne resolves to: a copy of the stored one, or null
Loaded(i) == IF i = 0 THEN NoDoc ELSE orders[i]

\* takes every code from 100 up (101, already verified) as success
IsOkFrom100(code) == code >= GATEWAY_OK
IsOk(code) == code = GATEWAY_OK
PaymentUrl(authority) == ZARINPAL_GATEWAY_URL \o authority

\* order.save() on a document loaded by findOne and then assigned to: the
\* stored record takes the value of an assigned path; when skipEqual, a
\* path assigned the value it was loaded with counts as unmodified and is
\* not written
WritePath(stored, path, loaded, value, skipEqual) ==
  IF skipEqual /\ value = loaded
  THEN stored
  ELSE [stored EXCEPT ![path] = value]

\* The Save operators give the set of stored collections a save() may
\* leave: one for each behaviour of the change tracking.
\* keeps the authority the order already has (the first write wins)
SaveAuthorityIfNone(doc, authority) ==
  {IF orders[doc.orderId].paymentAuthority = NULL
   THEN [orders EXCEPT ![doc.orderId].paymentAuthority = authority]
   ELSE orders}
\* writes the whole document the handler loaded, with the new authority
SaveAuthorityWholeDocument(doc, authority) ==
  {[orders EXCEPT ![doc.orderId] = [doc EXCEPT !.paymentAuthority = authority]]}
\* answers without saving the authority
SaveNoAuthority(doc, authority) ==
  {orders}
SaveAuthority(doc, authority) ==
  {[orders EXCEPT ![doc.orderId] =
      WritePath(@, "paymentAuthority", doc.paymentAuthority, authority, skipEqual)]
     : skipEqual \in BOOLEAN}
\* marks the order paid without the settlement reference
SavePaidWithoutRef(doc, ref_id) ==
  {[orders EXCEPT ![doc.orderId].paymentStatus = PAID]}
SavePaid(doc, ref_id) ==
  {[orders EXCEPT ![doc.orderId] =
      WritePath(WritePath(@, "paymentStatus", doc.paymentStatus, PAID, skipEqual),
                "paymentRefId", doc.paymentRefId, ref_id, skipEqual)]
     : skipEqual \in BOOLEAN}
SaveFailed(doc) ==
  {[orders EXCEPT ![doc.orderId] =
      WritePath(@, "paymentStatus", doc.paymentStatus, FAILED, skipEqual)]
     : skipEqual \in BOOLEAN}

\* handlers waiting for the gateway: the document each loaded and the
\* amount and authority it sent
InFlightCount == BagCardinality(inflight)
Handlers == BagToSet(inflight)
Start(h) == inflight (+) SetToBag({h})
Finish(h) == inflight (-) SetToBag({h})
\* handlers waiting for a database operation: the operation (pc), whether
\* it was executed (ok) and the handler's document
Awaiting == BagToSet(awaiting)
Suspend(h) == awaiting (+) SetToBag({h})
Resume(h) == awaiting (-) SetToBag({h})
\* a handler that suspends is started while fewer than Capacity handlers are
\* in progress
InProgress == InFlightCount + BagCardinality(awaiting)
Capacity == IF Len(orders) < MaxOrders THEN MaxInFlight ELSE 1
CanStart == InProgress < Capacity
\* a handler whose database operation rejected holds nothing its answer uses
Rejected(op, pc) ==
  [op |-> op, pc |-> pc, ok |-> FALSE, doc |-> NoDoc,
   authority |-> NULL, detail |-> 0]

\* the error handler (next(error)): 500
ServerError == [route |-> "error", status |-> 500, body |-> [error |-> "thrown"]]

(* ----------------------------- state ----------------------------------- *)
Init ==
  /\ orders = <<>>
  /\ inflight = EmptyBag
  /\ awaiting = EmptyBag
  /\ response = [route |-> "none", status |-> 0, body |-> [message |-> NULL]]

(* ------------------------ POST /api/create-order ----------------------- *)
\* validation, new Order(...) and the call of save(): the insert is executed
\* (db = "ok") or rejects
CreateOrder(body, token, db) ==
  /\ UNCHANGED inflight
  /\ IF Incomplete(body)
     THEN /\ response' = [route |-> "create-order", status |-> 400,
                          body |-> [message |-> "incomplete"]]
          /\ UNCHANGED <<orders, awaiting>>
     ELSE IF AmountMismatch(FinalAmount(body.products), body.amount)
     THEN /\ response' = [route |-> "create-order", status |-> 400,
                          body |-> [message |-> "mismatch"]]
          /\ UNCHANGED <<orders, awaiting>>
     ELSE /\ Len(orders) < MaxOrders
          /\ CanStart
          /\ orders' = IF db = "ok" THEN Append(orders, NewOrder(body, token))
                       ELSE orders
          /\ awaiting' = Suspend(IF db = "ok"
                                  THEN [op |-> "create", pc |-> "save", ok |-> TRUE,
                                        doc |-> NewOrder(body, token),
                                        authority |-> NULL, detail |-> 0]
                                  ELSE Rejected("create", "save"))
          /\ UNCHANGED response

\* after await newOrder.save(): 201 with the new order, or next(error)
CreateOrderRespond(h) ==
  /\ h \in Awaiting
  /\ h.op = "create"
  /\ awaiting' = Resume(h)
  /\ UNCHANGED <<orders, inflight>>
  /\ response' = IF h.ok
                 THEN [route |-> "create-order", status |-> 201,
                       body |-> [message |-> "created", order |-> h.doc]]
                 ELSE ServerError

(* ----------------------- POST /api/request-payment --------------------- *)
\* what the gateway answers to a payment request: code 100 with a new
\* authority, another code, or no answer (axios throws)
RequestOutcomes ==
  {[threw |-> FALSE, code |-> GATEWAY_OK, authority |-> a] : a \in Authorities}
  \cup {[threw |-> FALSE, code |-> c, authority |-> NULL] :
          c \in GatewayCodes \ {GATEWAY_OK}}
  \cup {[threw |-> TRUE, code |-> 0, authority |-> NULL]}

\* the query of Order.findOne({ orderId }) is executed, or rejects
RequestPaymentLookup(orderId, db) ==
  /\ CanStart
  /\ UNCHANGED <<orders, inflight, response>>
  /\ awaiting' = Suspend(IF db = "ok"
                          THEN [op |-> "request", pc |-> "findOne", ok |-> TRUE,
                                doc |-> Loaded(FindByOrderId(orderId)),
                                authority |-> NULL, detail |-> 0]
                          ELSE Rejected("request", "findOne"))

\* after await findOne: 404 when there is no order, otherwise the gateway
\* request is sent with order.amount
RequestPaymentSend(h) ==
  /\ h \in Awaiting
  /\ h.op = "request"
  /\ h.pc = "findOne"
  /\ awaiting' = Resume(h)
  /\ UNCHANGED orders
  /\ IF ~h.ok
     THEN /\ response' = ServerError
          /\ UNCHANGED inflight
     ELSE IF h.doc = NoDoc
     THEN /\ response' = [route |-> "request-payment", status |-> 404,
                          body |-> [message |-> "order not found"]]
          /\ UNCHANGED inflight
     ELSE /\ inflight' = Start([op |-> "request", doc |-> h.doc,
                                amount |-> h.doc.amount, authority |-> NULL])
          /\ UNCHANGED response

\* the gateway call returns (or throws): on code 100 the authority is
\* assigned and save() is called, and its update is executed or rejects
RequestPaymentReturn(h, out, db) ==
  /\ h \in Handlers
  /\ h.op = "request"
  /\ inflight' = Finish(h)
  /\ IF out.threw
     THEN /\ response' = ServerError
          /\ UNCHANGED <<orders, awaiting>>
     ELSE IF IsOk(out.code)
     THEN /\ IF db = "ok"
             THEN orders' \in SaveAuthority(h.doc, out.authority)
             ELSE UNCHANGED orders
          /\ awaiting' = Suspend(IF db = "ok"
                                  THEN [op |-> "request", pc |-> "save", ok |-> TRUE,
                                        doc |-> [h.doc EXCEPT
                                                   !.paymentAuthority = out.authority],
                                        authority |-> NULL, detail |-> out.code]
                                  ELSE Rejected("request", "save"))
          /\ UNCHANGED response
     ELSE /\ response' = [route |-> "request-payment", status |-> 500,
                          body |-> [message |-> "gateway error", detail |-> out.code]]
          /\ UNCHANGED <<orders, awaiting>>

\* after await order.save(): the payment url of order.paymentAuthority
RequestPaymentRespond(h) ==
  /\ h \in Awaiting
  /\ h.op = "request"
  /\ h.pc = "save"
  /\ awaiting' = Resume(h)
  /\ UNCHANGED <<orders, inflight>>
  /\ response' = IF h.ok
                 THEN [route |-> "request-payment", status |-> 200,
                       body |-> [payment_url |-> PaymentUrl(h.doc.paymentAuthority)]]
                 ELSE ServerError

(* ----------------------- POST /api/verify-payment ---------------------- *)
\* what the gateway answers to a verification of `authority`: code 100 with
\* a settlement reference (only for an authority it issued), another code,
\* or no answer (axios throws)
VerifyOutcomes(authority) ==
  {[threw |-> FALSE, code |-> GATEWAY_OK, ref_id |-> r] :
     r \in IF authority \in Authorities THEN RefIds ELSE {}}
  \cup {[threw |-> FALSE, code |-> c, ref_id |-> NULL] :
          c \in GatewayCodes \ {GATEWAY_OK}}
  \cup {[threw |-> TRUE, code |-> 0, ref_id |-> NULL]}

\* the query of Order.findOne({ orderId, paymentAuthority }) is executed,
\* or rejects
VerifyPaymentLookup(orderId, authority, db) ==
  /\ CanStart
  /\ UNCHANGED <<orders, inflight, response>>
  /\ awaiting' = Suspend(IF db = "ok"
                          THEN [op |-> "verify", pc |-> "findOne", ok |-> TRUE,
                                doc |-> Loaded(FindByOrderIdAndAuthority(orderId, authority)),
                                authority |-> authority, detail |-> 0]
                          ELSE Rejected("verify", "findOne"))

\* after await findOne: 404 when there is no order, otherwise the gateway
\* verification is sent with order.amount and the given authority
VerifyPaymentSend(h) ==
  /\ h \in Awaiting
  /\ h.op = "verify"
  /\ h.pc = "findOne"
  /\ awaiting' = Resume(h)
  /\ UNCHANGED orders
  /\ IF ~h.ok
     THEN /\ response' = ServerError
          /\ UNCHANGED inflight
     ELSE IF h.doc = NoDoc
     THEN /\ response' = [route |-> "verify-payment", status |-> 404,
                          body |-> [message |-> "transaction not found"]]
          /\ UNCHANGED inflight
     ELSE /\ inflight' = Start([op |-> "verify", doc |-> h.doc,
                                amount |-> h.doc.amount, authority |-> h.authority])
          /\ UNCHANGED response

\* the gateway call returns (or throws): the status (and the reference id)
\* is assigned and save() is called, and its update is executed or rejects
VerifyPaymentReturn(h, out, db) ==
  /\ h \in Handlers
  /\ h.op = "verify"
  /\ inflight' = Finish(h)
  /\ IF out.threw
     THEN /\ response' = ServerError
          /\ UNCHANGED <<orders, awaiting>>
     ELSE /\ UNCHANGED response
          /\ IF IsOk(out.code)
             THEN /\ IF db = "ok"
                     THEN orders' \in SavePaid(h.doc, out.ref_id)
                     ELSE UNCHANGED orders
                  /\ awaiting' =
                       Suspend(IF db = "ok"
                               THEN [op |-> "verify", pc |-> "save", ok |-> TRUE,
                                     doc |-> [h.doc EXCEPT !.paymentStatus = PAID,
                                                           !.paymentRefId = out.ref_id],
                                     authority |-> h.authority, detail |-> out.code]
                               ELSE Rejected("verify", "save"))
             ELSE /\ IF db = "ok"
                     THEN orders' \in SaveFailed(h.doc)
                     ELSE UNCHANGED orders
                  /\ awaiting' =
                       Suspend(IF db = "ok"
                               THEN [op |-> "verify", pc |-> "save", ok |-> TRUE,
                                     doc |-> [h.doc EXCEPT !.paymentStatus = FAILED],
                                     authority |-> h.authority, detail |-> out.code]
                               ELSE Rejected("verify", "save"))

\* after await order.save(): 200 success, or 400 with the gateway detail,
\* each with the handler's document
VerifyPaymentRespond(h) ==
  /\ h \in Awaiting
  /\ h.op = "verify"
  /\ h.pc = "save"
  /\ awaiting' = Resume(h)
  /\ UNCHANGED <<orders, inflight>>
  /\ response' = IF ~h.ok
                 THEN ServerError
                 ELSE IF IsOk(h.detail)
                 THEN [route |-> "verify-payment", status |-> 200,
                       body |-> [success |-> TRUE, order |-> h.doc]]
                 ELSE [route |-> "verify-payment", status |-> 400,
                       body |-> [success |-> FALSE, detail |-> h.detail,
                                 order |-> h.doc]]

(* ------------- authMiddleware, GET /api/my-orders, /api/orders-data ---- *)
\* authMiddleware: 401 without Authorization header, 400 when jwt.verify
\* throws, otherwise next() with req.user = the decoded token
authMiddleware(token) ==
  IF token = "none"
  THEN [next |-> FALSE, status |-> 401, user |-> NULL]
  ELSE IF JwtVerifyId(token) = NULL
  THEN [next |-> FALSE, status |-> 400, user |-> NULL]
  ELSE [next |-> TRUE, status |-> 0, user |-> JwtVerifyId(token)]

\* .sort({ createdAt: -1 }): the newest order first
RECURSIVE Newest(_)
Newest(list) ==
  IF list = <<>> THEN <<>>
  ELSE <<list[Len(list)]>> \o Newest(SubSeq(list, 1, Len(list) - 1))
\* Order.find({ user: id })
OrdersOf(id) == SelectSeq(orders, LAMBDA o : o.user = id)
\* .populate('user', 'username')
Populate(list) ==
  [i \in DOMAIN list |->
     [list[i] EXCEPT !.user = IF @ = NULL THEN NULL ELSE [username |-> @]]]

Unauthorized(route, status) ==
  [route |-> route, status |-> status, body |-> [message |-> "token"]]

\* authMiddleware, then the query of Order.find({ user }) is executed, or
\* rejects
GetMyOrders(token, db) ==
  LET auth == authMiddleware(token) IN
  /\ UNCHANGED <<orders, inflight>>
  /\ IF ~auth.next
     THEN /\ response' = Unauthorized("my-orders", auth.status)
          /\ UNCHANGED awaiting
     ELSE /\ CanStart
          /\ awaiting' = Suspend([op |-> "my-orders", pc |-> "find", ok |-> db = "ok",
                                  list |-> IF db = "ok" THEN Newest(OrdersOf(auth.user))
                                           ELSE <<>>])
          /\ UNCHANGED response

\* authMiddleware, then the query of Order.find() is executed, or rejects
GetOrdersData(token, db) ==
  LET auth == authMiddleware(token) IN
  /\ UNCHANGED <<orders, inflight>>
  /\ IF ~auth.next
     THEN /\ response' = Unauthorized("orders-data", auth.status)
          /\ UNCHANGED awaiting
     ELSE /\ CanStart
          /\ awaiting' = Suspend([op |-> "orders-data", pc |-> "find", ok |-> db = "ok",
                                  list |-> IF db = "ok" THEN Newest(Populate(orders))
                                           ELSE <<>>])
          /\ UNCHANGED response

\* after await Order.find(...): the list, or next(error)
OrderListRespond(h) ==
  /\ h \in Awaiting
  /\ h.op \in {"my-orders", "orders-data"}
  /\ awaiting' = Resume(h)
  /\ UNCHANGED <<orders, inflight>>
  /\ response' = IF h.ok
                 THEN [route |-> h.op, status |-> 200, body |-> [orders |-> h.list]]
                 ELSE ServerError

(* --------------------------- specification ----------------------------- *)
\* create-order alone, with every body
NextCreate ==
  \/ \E body \in CreateBodies, token \in FlowTokens, db \in DbOutcomes :
       CreateOrder(body, token, db)
  \/ \E h \in Awaiting : CreateOrderRespond(h)

SpecCreate == Init /\ [][NextCreate]_vars

\* the payment flow
Next ==
  \/ \E body \in FlowBodies, token \in FlowTokens, db \in DbOutcomes :
       CreateOrder(body, token, db)
  \/ \E h \in Awaiting : CreateOrderRespond(h)
  \/ \E orderId \in OrderIds, db \in DbOutcomes : RequestPaymentLookup(orderId, db)
  \/ \E h \in Awaiting : RequestPaymentSend(h)
  \/ \E h \in Handlers, out \in RequestOutcomes, db \in DbOutcomes :
       RequestPaymentReturn(h, out, db)
  \/ \E h \in Awaiting : RequestPaymentRespond(h)
  \/ \E orderId \in OrderIds, authority \in Authorities \cup {NULL}, db \in DbOutcomes :
       VerifyPaymentLookup(orderId, authority, db)
  \/ \E h \in Awaiting : VerifyPaymentSend(h)
  \/ \E h \in Handlers, db \in DbOutcomes :
       \E out \in VerifyOutcomes(h.authority) : VerifyPaymentReturn(h, out, db)
  \/ \E h \in Awaiting : VerifyPaymentRespond(h)

Spec == Init /\ [][Next]_vars

\* create-order with every token, and the two protected routes
NextAuth ==
  \/ \E body \in FlowBodies, token \in Tokens, db \in DbOutcomes :
       CreateOrder(body, token, db)
  \/ \E h \in Awaiting : CreateOrderRespond(h)
  \/ \E token \in Tokens, db \in DbOutcomes : GetMyOrders(token, db)
  \/ \E token \in Tokens, db \in DbOutcomes : GetOrdersData(token, db)
  \/ \E h \in Awaiting : OrderListRespond(h)

SpecAuth == Init /\ [][NextAuth]_vars

(* ------------------------------ claims --------------------------------- *)
\* the sum of price * quantity over the line items, from the last item down
RECURSIVE SumOfLines(_)
SumOfLines(products) ==
  IF products = <<>> THEN 0
  ELSE LET n == Len(products)
       IN  SumOfLines(SubSeq(products, 1, n - 1))
             + products[n].price * products[n].quantity

\* the step suspends one more handler at a database operation that was
\* executed: the handler is of operation op at pc, holds document doc and
\* the gateway code detail (0 when it has called no gateway)
Suspends(op, pc, doc, detail) ==
  \E g \in BagToSet(awaiting') :
    /\ g.op = op /\ g.pc = pc /\ g.ok /\ g.doc = doc /\ g.detail = detail
    /\ awaiting' = awaiting (+) SetToBag({g})

\* C1: once an order is PAID, a verify-payment call made after that (its
\* lookup loaded the order as PAID) leaves the stored paymentStatus PAID
\* when its gateway call returns, whatever the gateway code.
PaidIsTerminal ==
  [][\A h \in Handlers, db \in DbOutcomes :
       \A out \in VerifyOutcomes(h.authority) :
         (/\ VerifyPaymentReturn(h, out, db)
          /\ h.doc.paymentStatus = PAID
          /\ orders[h.doc.orderId].paymentStatus = PAID)
         => orders'[h.doc.orderId].paymentStatus = PAID]_vars

\* what a verify-payment handler does once its save was executed, for the
\* gateway outcome out: the order is stored PAID with the gateway's ref_id
\* after code 100 and FAILED after any other code, never left unpaid, and
\* the handler waits for the save with the document as it assigned it
Finalizes(h, out) ==
  /\ orders'[h.doc.orderId].paymentStatus # UNPAID
  /\ response' = response
  /\ IF out.code = 100
     THEN /\ orders'[h.doc.orderId].paymentStatus = PAID
          /\ orders'[h.doc.orderId].paymentRefId = out.ref_id
          /\ Suspends("verify", "save",
                      [h.doc EXCEPT !.paymentStatus = PAID,
                                    !.paymentRefId = out.ref_id], 100)
     ELSE /\ orders'[h.doc.orderId].paymentStatus = FAILED
          /\ Suspends("verify", "save",
                      [h.doc EXCEPT !.paymentStatus = FAILED], out.code)

\* after await order.save(): 200 success:true after code 100, 400
\* success:false after any other code, with the handler's document
AnswersAsSaved(h) ==
  /\ response'.route = "verify-payment"
  /\ response'.body.order = h.doc
  /\ orders' = orders
  /\ IF h.detail = 100
     THEN response'.status = 200 /\ response'.body.success = TRUE
     ELSE response'.status = 400 /\ response'.body.success = FALSE

\* no other call has changed, since this handler loaded the order, a field
\* the handler assigns the value it loaded: the reference id after code
\* 100 (the status it loaded is not PAID), the status after any other code
NotChangedSinceLoaded(h, out) ==
  IF out.code = 100
  THEN h.doc.paymentRefId = out.ref_id
         => orders[h.doc.orderId].paymentRefId = out.ref_id
  ELSE h.doc.paymentStatus = FAILED
         => orders[h.doc.orderId].paymentStatus = FAILED

\* C2, as stated: for every verify-payment whose lookup matched an order
\* not yet PAID, when its gateway call returns and the save is executed:
\* code 100 persists the order as PAID with the gateway's ref_id, any other
\* code persists it as FAILED, and the order is never left unpaid; the
\* handler then answers 200 success:true after code 100 and 400
\* success:false after any other code.
VerifyFinalizesMatchedOrder ==
  [][/\ \A h \in Handlers :
          \A out \in VerifyOutcomes(h.authority) :
            (/\ VerifyPaymentReturn(h, out, "ok")
             /\ ~out.threw
             /\ h.doc.paymentStatus # PAID)
            => Finalizes(h, out)
     /\ \A h \in Awaiting :
          (VerifyPaymentRespond(h) /\ h.ok) => AnswersAsSaved(h)]_vars

\* C2, amended: the same, for a verify-payment that assigns no field the
\* value it loaded after another call changed that field: one that loaded
\* the order FAILED and gets a code other than 100 after a concurrent verify
\* stored PAID may write nothing, and one that loaded the reference id the
\* gateway returns may leave the reference id another call stored.
VerifyFinalizesOrder ==
  [][/\ \A h \in Handlers :
          \A out \in VerifyOutcomes(h.authority) :
            (/\ VerifyPaymentReturn(h, out, "ok")
             /\ ~out.threw
             /\ h.doc.paymentStatus # PAID
             /\ NotChangedSinceLoaded(h, out))
            => Finalizes(h, out)
     /\ \A h \in Awaiting :
          (VerifyPaymentRespond(h) /\ h.ok) => AnswersAsSaved(h)]_vars

\* a verify-payment has just answered 400 for an order it failed, which is
\* stored FAILED without reference id, while another order, verified with
\* code 100, is PAID and carries the gateway's ref_id
VerifyFinalizesOrderWitness ==
  /\ response.route = "verify-payment"
  /\ response.status = 400
  /\ response.body.order.paymentStatus = FAILED
  /\ orders[response.body.order.orderId].paymentStatus = FAILED
  /\ orders[response.body.order.orderId].paymentRefId = NULL
  /\ \E i \in DOMAIN orders :
       /\ orders[i].paymentStatus = PAID
       /\ orders[i].paymentRefId = "R9"

\* C3: every persisted order has amount = sum(price * quantity) + 50000, and
\* the amount of every gateway call in flight (request or verify) is the
\* stored amount of the order it was issued for.
AmountIntegrity ==
  /\ \A i \in DOMAIN orders :
       orders[i].amount = SumOfLines(orders[i].products) + 50000
  /\ \A h \in Handlers : h.amount = orders[h.doc.orderId].amount

\* two orders of different amounts: the first was created for a declared
\* amount 1 above its final amount and has been given an authority, and a
\* verify call for the second is in flight
AmountIntegrityWitness ==
  /\ Len(orders) = 2
  /\ orders[1].amount = 50002
  /\ orders[2].amount = 50003
  /\ orders[1].paymentAuthority \in Authorities
  /\ \E h \in Handlers :
       /\ h.op = "verify"
       /\ h.doc.orderId = 2
       /\ h.amount = 50003

\* C4: a create-order whose input is complete is rejected with 400 and
\* persists nothing when the computed final amount and the declared amount
\* differ by more than 1; when they differ by 0 or by exactly 1 it is
\* accepted: the order is persisted with the computed amount (the insert
\* executed) and the handler then answers 201 with that order.
CreateOrderTolerance ==
  [][/\ \A body \in CreateBodies, token \in FlowTokens :
          (/\ CreateOrder(body, token, "ok")
           /\ body.shippingInfo # NULL
           /\ body.products # <<>>
           /\ body.amount # 0)
          => LET d == (SumOfLines(body.products) + 50000) - body.amount IN
             IF d > 1 \/ d < -1
             THEN /\ response'.status = 400
                  /\ orders' = orders
                  /\ awaiting' = awaiting
             ELSE /\ response' = response
                  /\ Len(orders') = Len(orders) + 1
                  /\ SubSeq(orders', 1, Len(orders)) = orders
                  /\ orders'[Len(orders')].products = body.products
                  /\ orders'[Len(orders')].amount = SumOfLines(body.products) + 50000
                  /\ Suspends("create", "save", orders'[Len(orders')], 0)
     /\ \A h \in Awaiting :
          (CreateOrderRespond(h) /\ h.ok)
          => /\ response'.route = "create-order"
             /\ response'.status = 201
             /\ response'.body.order = h.doc
             /\ orders' = orders]_vars

\* a create-order has just been rejected for its amount while another, of
\* MaxItems line items, has stored its order and has not answered yet
CreateOrderToleranceWitness ==
  /\ Len(orders) = 1
  /\ Len(orders[1].products) = MaxItems
  /\ response.route = "create-order"
  /\ response.status = 400
  /\ response.body.message = "mismatch"
  /\ \E h \in Awaiting : h.op = "create" /\ h.ok /\ h.doc = orders[1]

\* C5: a verify-payment whose (orderId, authority) pair matches no stored
\* order when its query is executed loads no document, then answers 404,
\* sends nothing to the gateway and changes no order.
VerifyNeedsOrderIdAndAuthority ==
  [][/\ \A orderId \in OrderIds, authority \in Authorities \cup {NULL} :
          (/\ VerifyPaymentLookup(orderId, authority, "ok")
           /\ ~\E i \in DOMAIN orders :
                 /\ orders[i].orderId = orderId
                 /\ orders[i].paymentAuthority = authority)
          => /\ Suspends("verify", "findOne", NoDoc, 0)
             /\ response' = response
             /\ inflight' = inflight
             /\ orders' = orders
     /\ \A h \in Awaiting :
          (VerifyPaymentSend(h) /\ h.ok /\ h.doc = NoDoc)
          => /\ response'.route = "verify-payment"
             /\ response'.status = 404
             /\ inflight' = inflight
             /\ orders' = orders]_vars

\* a verify-payment was answered 404 although both orders exist and hold an
\* authority: the authority given was not (or no longer) the stored one
VerifyNeedsOrderIdAndAuthorityWitness ==
  /\ response.route = "verify-payment"
  /\ response.status = 404
  /\ inflight = EmptyBag
  /\ awaiting = EmptyBag
  /\ Len(orders) = MaxOrders
  /\ \A i \in DOMAIN orders : orders[i].paymentAuthority \in Authorities

\* C6: a request-payment whose orderId matches no stored order when its
\* query is executed loads no document, then answers 404, sends nothing to
\* the gateway and writes no order.
RequestUnknownOrder ==
  [][/\ \A orderId \in OrderIds :
          (/\ RequestPaymentLookup(orderId, "ok")
           /\ ~\E i \in DOMAIN orders : orders[i].orderId = orderId)
          => /\ Suspends("request", "findOne", NoDoc, 0)
             /\ response' = response
             /\ inflight' = inflight
             /\ orders' = orders
     /\ \A h \in Awaiting :
          (RequestPaymentSend(h) /\ h.ok /\ h.doc = NoDoc)
          => /\ response'.route = "request-payment"
             /\ response'.status = 404
             /\ inflight' = inflight
             /\ orders' = orders]_vars

\* a request-payment was answered 404 while an order is stored
RequestUnknownOrderWitness ==
  /\ response.route = "request-payment"
  /\ response.status = 404
  /\ inflight = EmptyBag
  /\ awaiting = EmptyBag
  /\ Len(orders) >= 1

\* C7: when the gateway answers a request-payment with a code other than
\* 100, the handler answers with an error carrying the gateway detail, saves
\* nothing and no stored order changes (so the order can be requested again).
RequestRejectedLeavesOrder ==
  [][\A h \in Handlers, out \in RequestOutcomes, db \in DbOutcomes :
       (RequestPaymentReturn(h, out, db) /\ ~out.threw /\ out.code # 100)
       => /\ orders' = orders
          /\ awaiting' = awaiting
          /\ response'.route = "request-payment"
          /\ response'.status = 500
          /\ response'.body.detail = out.code]_vars

\* the gateway has just rejected a request-payment for a paid order, which
\* still has its authority, status and reference id
RequestRejectedLeavesOrderWitness ==
  /\ response.route = "request-payment"
  /\ response.status = 500
  /\ response.body.detail = 101
  /\ Len(orders) = 1
  /\ orders[1].paymentAuthority = "A1"
  /\ orders[1].paymentStatus = PAID
  /\ orders[1].paymentRefId = "R9"

\* C8: when the gateway answers a request-payment with code 100 and a new
\* authority A (not the one the order was loaded with) and the save is
\* executed, the order is stored with paymentAuthority = A; the handler then
\* answers with a payment_url that is the gateway base URL followed by A.
RequestStoresAuthority ==
  [][/\ \A h \in Handlers, out \in RequestOutcomes :
          (/\ RequestPaymentReturn(h, out, "ok")
           /\ ~out.threw /\ out.code = 100
           /\ out.authority # h.doc.paymentAuthority)
          => /\ orders'[h.doc.orderId].paymentAuthority = out.authority
             /\ response' = response
             /\ Suspends("request", "save",
                         [h.doc EXCEPT !.paymentAuthority = out.authority], 100)
     /\ \A h \in Awaiting :
          (RequestPaymentRespond(h) /\ h.ok)
          => /\ response'.route = "request-payment"
             /\ response'.status = 200
             /\ response'.body.payment_url =
                  "https://www.zarinpal.com/pg/StartPay/" \o h.doc.paymentAuthority
             /\ orders' = orders]_vars

\* the second order has just been given authority A2 in place of A1
RequestStoresAuthorityWitness ==
  /\ response.route = "request-payment"
  /\ response.status = 200
  /\ response.body.payment_url = "https://www.zarinpal.com/pg/StartPay/A2"
  /\ Len(orders) = 2
  /\ orders[1].paymentAuthority = "A1"
  /\ orders[2].paymentAuthority = "A2"

\* C9: an order carries a paymentRefId only when its paymentStatus is PAID.
RefIdOnlyWhenPaid ==
  \A i \in DOMAIN orders :
    orders[i].paymentRefId # NULL => orders[i].paymentStatus = PAID

\* C10: a FAILED order can be paid again: request-payment loads it and sends
\* the gateway request, a gateway code 100 with a new authority overwrites
\* its authority (the status stays FAILED), a verify-payment then loads the
\* order only with the stored authority (the old one loads nothing), and
\* the return of code 100 to a verify-payment that loaded it FAILED makes
\* the order PAID.
FailedIsReissuable ==
  [][/\ \A orderId \in OrderIds :
          (/\ RequestPaymentLookup(orderId, "ok")
           /\ \E i \in DOMAIN orders :
                orders[i].orderId = orderId /\ orders[i].paymentStatus = FAILED)
          => Suspends("request", "findOne", orders[orderId], 0)
     /\ \A h \in Awaiting :
          (RequestPaymentSend(h) /\ h.ok /\ h.doc # NoDoc /\ h.doc.paymentStatus = FAILED)
          => /\ response' = response
             /\ BagCardinality(inflight') = BagCardinality(inflight) + 1
     /\ \A h \in Handlers, out \in RequestOutcomes :
          (/\ RequestPaymentReturn(h, out, "ok") /\ ~out.threw /\ out.code = 100
           /\ out.authority # h.doc.paymentAuthority
           /\ orders[h.doc.orderId].paymentStatus = FAILED)
          => /\ orders'[h.doc.orderId].paymentAuthority = out.authority
             /\ orders'[h.doc.orderId].paymentStatus = FAILED
     /\ \A orderId \in OrderIds, authority \in Authorities \cup {NULL} :
          (/\ VerifyPaymentLookup(orderId, authority, "ok")
           /\ \E i \in DOMAIN orders :
                /\ orders[i].orderId = orderId
                /\ orders[i].paymentStatus = FAILED)
          => IF orders[orderId].paymentAuthority = authority
             THEN Suspends("verify", "findOne", orders[orderId], 0)
             ELSE Suspends("verify", "findOne", NoDoc, 0)
     /\ \A h \in Handlers :
          \A out \in VerifyOutcomes(h.authority) :
            (/\ VerifyPaymentReturn(h, out, "ok") /\ ~out.threw /\ out.code = 100
             /\ h.doc.paymentStatus = FAILED
             /\ orders[h.doc.orderId].paymentStatus = FAILED)
            => orders'[h.doc.orderId].paymentStatus = PAID]_vars

\* the only order is FAILED, a request-payment has just replaced its
\* authority by A2, and a verify-payment with A2 is waiting for the gateway
FailedIsReissuableWitness ==
  /\ Len(orders) = 1
  /\ orders[1].paymentStatus = FAILED
  /\ orders[1].paymentAuthority = "A2"
  /\ response.route = "request-payment"
  /\ response.status = 200
  /\ response.body.payment_url = "https://www.zarinpal.com/pg/StartPay/A2"
  /\ \E h \in Handlers :
       /\ h.op = "verify"
       /\ h.authority = "A2"
       /\ h.doc.paymentStatus = FAILED

\* C11: on GET /api/my-orders and GET /api/orders-data a request without
\* bearer credential, or with an invalid one, is answered 401, the query of
\* the route handler is not issued and no order list is returned.
ProtectedRoutesAnswer401 ==
  [][\A token \in {"none", "bad"}, db \in DbOutcomes :
       (GetMyOrders(token, db) \/ GetOrdersData(token, db))
       => /\ response'.status = 401
          /\ response'.route \in {"my-orders", "orders-data"}
          /\ response'.body = [message |-> "token"]
          /\ awaiting' = awaiting]_vars

\* the request-payment handler h is in a race: another request-payment that
\* loaded the same order is in progress, or the order's authority was
\* written since h read it
RacingWith(h) ==
  \/ CopiesIn(h, inflight) >= 2
  \/ \E g \in Handlers \cup Awaiting :
       g # h /\ g.op = "request" /\ g.doc.orderId = h.doc.orderId
  \/ h.doc.paymentAuthority # orders[h.doc.orderId].paymentAuthority

\* C12: two request-payment calls for one order that both read it before
\* either writes, both accepted by the gateway with different new
\* authorities: each return stores its own authority (so the stored one is
\* that of the last write, and no other authority matches the order any
\* more) and each handler answers with its payment_url; a verify-payment
\* with an authority that is not the stored one loads nothing, is answered
\* 404 and finalizes nothing.
RequestRaceLastWriteWins ==
  [][/\ \A h \in Handlers, out \in RequestOutcomes :
          (/\ RequestPaymentReturn(h, out, "ok") /\ ~out.threw /\ out.code = 100
           /\ out.authority # h.doc.paymentAuthority
           /\ RacingWith(h))
          => /\ orders'[h.doc.orderId].paymentAuthority = out.authority
             /\ \A a \in Authorities \ {out.authority} :
                  ~\E i \in DOMAIN orders' :
                      /\ orders'[i].orderId = h.doc.orderId
                      /\ orders'[i].paymentAuthority = a
             /\ Suspends("request", "save",
                         [h.doc EXCEPT !.paymentAuthority = out.authority], 100)
     /\ \A h \in Awaiting :
          (RequestPaymentRespond(h) /\ h.ok)
          => /\ response'.status = 200
             /\ response'.body.payment_url =
                  "https://www.zarinpal.com/pg/StartPay/" \o h.doc.paymentAuthority
     /\ \A orderId \in OrderIds, authority \in Authorities :
          (/\ VerifyPaymentLookup(orderId, authority, "ok")
           /\ \E i \in DOMAIN orders :
                /\ orders[i].orderId = orderId
                /\ orders[i].paymentAuthority \in Authorities \ {authority})
          => /\ Suspends("verify", "findOne", NoDoc, 0)
             /\ orders' = orders
     /\ \A h \in Awaiting :
          (VerifyPaymentSend(h) /\ h.ok /\ h.doc = NoDoc)
          => /\ response'.route = "verify-payment"
             /\ response'.status = 404
             /\ inflight' = inflight
             /\ orders' = orders]_vars

\* two request-payment calls read the order while it held A1; one has
\* returned, stored A2 in its place and answered, the other still waits
\* for the gateway, and a verify-payment has just been answered 404
RequestRaceLastWriteWinsWitness ==
  /\ Len(orders) = 1
  /\ orders[1].paymentAuthority = "A2"
  /\ orders[1].paymentStatus = UNPAID
  /\ response.route = "verify-payment"
  /\ response.status = 404
  /\ \E h \in Handlers :
       /\ h.op = "request"
       /\ h.doc.paymentAuthority = "A1"

\* C13: a PAID order holds the authority the gateway confirmed: the
\* verify-payment return that makes an order PAID leaves it with the
\* authority it verified, and no step changes the authority of a PAID order.
PaidHoldsVerifiedAuthority ==
  [][/\ \A h \in Handlers :
          \A out \in VerifyOutcomes(h.authority) :
            (VerifyPaymentReturn(h, out, "ok") /\ ~out.threw /\ out.code = 100)
            => orders'[h.doc.orderId].paymentAuthority = h.authority
     /\ \A i \in DOMAIN orders :
          orders[i].paymentStatus = PAID
          => orders'[i].paymentAuthority = orders[i].paymentAuthority]_vars

\* C14: request-payment changes at most the paymentAuthority of the order it
\* looked up, verify-payment at most its paymentStatus and paymentRefId, each
\* only in the step that saves; neither changes any other field or any other
\* order, nor removes an order.
PaymentFrame ==
  [][/\ \A orderId \in OrderIds, db \in DbOutcomes :
          RequestPaymentLookup(orderId, db) => orders' = orders
     /\ \A orderId \in OrderIds, authority \in Authorities \cup {NULL},
           db \in DbOutcomes :
          VerifyPaymentLookup(orderId, authority, db) => orders' = orders
     /\ \A h \in Awaiting :
          (\/ RequestPaymentSend(h) \/ RequestPaymentRespond(h)
           \/ VerifyPaymentSend(h) \/ VerifyPaymentRespond(h))
          => orders' = orders
     /\ \A h \in Handlers, out \in RequestOutcomes, db \in DbOutcomes :
          RequestPaymentReturn(h, out, db)
          => /\ DOMAIN orders' = DOMAIN orders
             /\ \A i \in DOMAIN orders :
                  orders'[i] =
                    IF i = h.doc.orderId
                    THEN [orders[i] EXCEPT
                            !.paymentAuthority = orders'[i].paymentAuthority]
                    ELSE orders[i]
     /\ \A h \in Handlers, db \in DbOutcomes :
          \A out \in VerifyOutcomes(h.authority) :
            VerifyPaymentReturn(h, out, db)
            => /\ DOMAIN orders' = DOMAIN orders
               /\ \A i \in DOMAIN orders :
                    orders'[i] =
                      IF i = h.doc.orderId
                      THEN [orders[i] EXCEPT
                              !.paymentStatus = orders'[i].paymentStatus,
                              !.paymentRefId = orders'[i].paymentRefId]
                      ELSE orders[i]]_vars

\* a request-payment has just given the paid first order the authority A2:
\* the order is still PAID with its reference id, and the second order is
\* as it was created
PaymentFrameWitness ==
  /\ Len(orders) = 2
  /\ response.route = "request-payment"
  /\ response.status = 200
  /\ response.body.payment_url = "https://www.zarinpal.com/pg/StartPay/A2"
  /\ orders[1].paymentAuthority = "A2"
  /\ orders[1].paymentStatus = PAID
  /\ orders[1].paymentRefId = "R9"
  /\ orders[2].paymentAuthority = NULL
  /\ orders[2].paymentStatus = UNPAID
====
